---- MODULE Spec2Model ----
(***************************************************************************)
(* The refresh-and-render loop of power_monitor.py (MacJet): draw_dashboard *)
(* run under curses.wrapper by main, with the six sample providers, the    *)
(* terminal input queue and the wall clock as its environment.             *)
(*                                                                         *)
(* Time is in whole seconds.  Command output is modelled as a function     *)
(* from the keys a provider's regular expressions look for to the values   *)
(* they capture; the empty function << >> is the empty string "" that      *)
(* run_cmd returns when the command fails or times out.                    *)
(***************************************************************************)
EXTENDS Integers, Sequences, FiniteSets, TLC

\* ------------------------------------------------------------------ bounds
\* Capacity of the terminal's input queue (keys typed and not yet read).
MaxKeys == 2
\* Most external commands that fail or time out within one refresh batch.
MaxFailures == 1
\* Longest time, in seconds, the providers of one batch take altogether.
MaxElapsed == 1
\* Most refresh batches in one run.
MaxBatches == 2

\* --------------------------------------------------------- program constants
update_interval == 10
ERR == -1
ord_q == 113
ord_Q == 81
ord_r == 114
ord_R == 82
ord_x == 120

Keys == {ord_q, ord_Q, ord_r, ord_R, ord_x}

\* The wall-clock readings time.time() is taken to return, in seconds: below,
\* at and above one and two refresh intervals.  The clock is the system's
\* wall clock, so a reading may be lower than the one before it.
ClockReadings == {0, 9, 10, 19, 20}

VARIABLES
    pc,            \* position of the main thread in main / draw_dashboard
    current_time,  \* draw_dashboard: time.time() sampled at the top of the tick
    last_update,   \* draw_dashboard: time of the last refresh (0 forces one)
    key,           \* draw_dashboard: result of the tick's stdscr.getch()
    battery, pmset, thermal, cpu, memory, disk,   \* the six cached samples
    maxyx,         \* draw_dashboard: <<height, width>> of the last getmaxyx()
    frame,         \* what the last completed render put on the screen
    terminal,      \* "curses" while curses.wrapper holds it, else "restored"
    stdout,        \* lines printed by main after the wrapper returned
    raised,        \* the exception that left draw_dashboard, "none" if none
    keybuf,        \* environment: keys typed and not yet read by getch
    elapsed,       \* environment: seconds the running batch has taken so far
    failures,      \* environment: the commands that failed in the running batch
    fetched,       \* history: provider -> number of the batch that fetched it
    batches,       \* history: number of refresh batches started
    calls,         \* history: providers invoked since the top of the tick
    bar            \* a call of make_bar on its own: arguments and result

samples == <<battery, pmset, thermal, cpu, memory, disk>>
vars == <<pc, current_time, last_update, key, battery, pmset, thermal, cpu,
          memory, disk, maxyx, frame, terminal, stdout, raised, keybuf, elapsed,
          failures, fetched, batches, calls, bar>>

Providers == <<"battery", "pmset", "thermal", "cpu", "memory", "disk">>
ProviderSet == {Providers[i] : i \in 1..Len(Providers)}

\* Python's None.
None == [none |-> TRUE]

\* ------------------------------------------------------------ run_cmd
\* The result of subprocess.run: the command's stdout, a timeout or an error.
Ok(out) == [status |-> "ok", stdout |-> out]
TimedOut == [status |-> "timeout"]
Errored == [status |-> "error"]
CmdFailed(r) == r.status # "ok"

\* run_cmd: stdout, or "" on TimeoutExpired or any other Exception.
run_cmd(r) == IF r.status = "ok" THEN r.stdout ELSE << >>

\* `int(match.group(1)) if match else dflt` for the pattern of key k.
Search(output, k, dflt) == IF k \in DOMAIN output THEN output[k] ELSE dflt

\* ------------------------------------------------------------ providers
\* parse_ioreg_battery, given what run_cmd("ioreg -rn AppleSmartBattery")
\* returned: every field is its captured value, or its default when the
\* pattern does not match.
parse_ioreg_battery(output) ==
    [current_capacity_mah |-> Search(output, "CurrentCapacity", 0),
     max_capacity_mah     |-> Search(output, "MaxCapacity", 0),
     design_capacity_mah  |-> Search(output, "DesignCapacity", 0),
     voltage_mv           |-> Search(output, "Voltage", 0),
     amperage_ma          |-> Search(output, "InstantAmperage", 0),
     is_charging          |-> IF "IsCharging" \in DOMAIN output
                              THEN output["IsCharging"] = "Yes" ELSE FALSE,
     external_connected   |-> IF "ExternalConnected" \in DOMAIN output
                              THEN output["ExternalConnected"] = "Yes" ELSE FALSE,
     cycle_count          |-> Search(output, "CycleCount", 0),
     adapter_watts        |-> Search(output, "Watts", 0),
     adapter_voltage_mv   |-> Search(output, "AdapterVoltage", 0),
     adapter_current_ma   |-> Search(output, "Current", 0),
     system_power_mw      |-> Search(output, "SystemPowerIn", 0),
     charging_current_ma  |-> Search(output, "ChargingCurrent", 0),
     charging_voltage_mv  |-> Search(output, "ChargingVoltage", 0),
     cell_voltages        |-> Search(output, "CellVoltage", <<0, 0, 0>>)]

\* parse_pmset, given what run_cmd("pmset -g batt") returned.  "phrases" is
\* the set of the words of interest the text holds; 'charging' is a substring
\* of 'discharging', so the first test sees either.
parse_pmset(output) ==
    LET phrases == Search(output, "phrases", {})
        has_discharging == "discharging" \in phrases
        has_charging == "charging" \in phrases \/ has_discharging
    IN [percentage |-> Search(output, "percentage", 0),
        status |-> IF has_charging /\ ~has_discharging THEN "Charging"
                   ELSE IF has_discharging THEN "Discharging"
                   ELSE IF "charged" \in phrases THEN "Fully Charged"
                   ELSE IF "AC Power" \in phrases THEN "On AC"
                   ELSE "Unknown",
        time_remaining |-> Search(output, "remaining", "N/A")]

\* parse_thermal, given what run_cmd("pmset -g therm") returned.
parse_thermal(output) ==
    [cpu_speed_limit |-> Search(output, "CPU_Speed_Limit", 100)]

\* get_cpu_usage, given what run_cmd("top -l 1 ...") returned: user + sys
\* when the line matches, else 0.
get_cpu_usage(output) ==
    IF "usage" \in DOMAIN output
    THEN output["usage"][1] + output["usage"][2]
    ELSE 0

\* get_memory_info, given what its three run_cmd calls returned.  Sizes are in
\* KiB (the code's bytes / 1024) to stay within TLC's integers, and used_pct
\* is the whole part of the code's float.
get_memory_info(memsize_out, vm_stat_out, pagesize_out) ==
    LET total_bytes == Search(memsize_out, "digits", 16 * 1024 * 1024)
        pages == vm_stat_out
        page_size == Search(pagesize_out, "digits", 16)
        free == Search(pages, "Pages free", 0) * page_size
        active == Search(pages, "Pages active", 0) * page_size
        inactive == Search(pages, "Pages inactive", 0) * page_size
        speculative == Search(pages, "Pages speculative", 0) * page_size
        wired == Search(pages, "Pages wired down", 0) * page_size
        compressed == Search(pages, "Pages occupied by compressor", 0) * page_size
        purgeable == Search(pages, "Pages purgeable", 0) * page_size
        app_memory == active + wired
        cached == inactive + purgeable + speculative
    IN [total_gb |-> total_bytes,
        app_gb |-> app_memory,
        wired_gb |-> wired,
        compressed_gb |-> compressed,
        cached_gb |-> cached,
        free_gb |-> free,
        purgeable_gb |-> purgeable,
        used_pct |-> ((app_memory + compressed) * 100) \div total_bytes]

\* The size a diskutil line gives, in MB (GB * 1024), so that the MB branch
\* of the code stays integral.
DiskSize(m) ==
    IF m[2] = "TB" THEN m[1] * 1024 * 1024
    ELSE IF m[2] = "MB" THEN m[1]
    ELSE m[1] * 1024

\* get_disk_info, given what run_cmd("diskutil info /") returned.
get_disk_info(output) ==
    LET has(k) == k \in DOMAIN output
        total == IF has("Container Total Space")
                 THEN DiskSize(output["Container Total Space"]) ELSE 0
        avail == IF has("Container Free Space")
                 THEN DiskSize(output["Container Free Space"]) ELSE 0
        used0 == IF has("Volume Used Space")
                 THEN DiskSize(output["Volume Used Space"]) ELSE 0
        used == IF used0 = 0 /\ total > 0 THEN total - avail ELSE used0
    IN [total_gb |-> total,
        used_gb |-> used,
        available_gb |-> avail,
        purgeable_gb |-> avail,
        used_pct |-> IF total > 0 THEN (used * 100) \div total ELSE 0]

\* ------------------------------------------------------ metric derivation
\* The integer "{x:.0f}" shows for x = n / d, n >= 0, d > 0 (round half even).
Round0(n, d) ==
    LET q == n \div d
        r == n % d
    IN IF 2 * r > d \/ (2 * r = d /\ q % 2 = 1) THEN q + 1 ELSE q

\* "{m:02d}" for m >= 0.
Pad2(m) == IF m < 10 THEN "0" \o ToString(m) ELSE ToString(m)

\* "{t / 10:.1f}" for a whole number t of tenths, t >= 0.
Fixed1(t) == ToString(t \div 10) \o "." \o ToString(t % 10)

\* fill * n (the empty string when n <= 0).
RECURSIVE Repeat(_, _)
Repeat(glyph, n) == IF n <= 0 THEN "" ELSE glyph \o Repeat(glyph, n - 1)

\* The rational n / d (n >= 0, d > 0) in lowest terms, as <<n, d>>.
RECURSIVE GCD(_, _)
GCD(a, b) == IF b = 0 THEN a ELSE GCD(b, a % b)
Ratio(n, d) == <<n \div GCD(n, d), d \div GCD(n, d)>>

\* ---------------------------------------------------- binary64 arithmetic
\* Python's float is the IEEE 754 double: 53 significant bits, every result
\* rounded to nearest, ties to even.  A positive double is modelled exactly,
\* as [m, e]: m its significand in five limbs, most significant first, the
\* first limb the leading 1 and the other four LimbBits bits each, and e the
\* power of two of its last bit, so that its value is LimbsValue(m) * 2^e.
LimbBits == 13
LimbBase == 2 ^ LimbBits

\* The number of bits of v >= 1.
BitLen(v) == CHOOSE k \in 1..31 : 2 ^ (k - 1) <= v /\ (k = 31 \/ v < 2 ^ k)

\* limbs + 1, the carry running up to the first limb, which may grow.
RECURSIVE LimbsInc(_)
LimbsInc(limbs) ==
    LET n == Len(limbs)
    IN IF n = 1 \/ limbs[n] < LimbBase - 1
       THEN [limbs EXCEPT ![n] = @ + 1]
       ELSE LimbsInc(SubSeq(limbs, 1, n - 1)) \o <<0>>

\* The double nearest to limbs * 2^e (+ a fraction of 2^e when sticky): its
\* lowest s bits, s < LimbBits, are rounded away.  limbs are five, and the
\* first has s + 1 bits.
RoundLimbs(limbs, s, e, sticky) ==
    LET low == 2 ^ s
        kept == [i \in 1..5 |->
                    (IF i = 1 THEN 0
                     ELSE (limbs[i - 1] % low) * (LimbBase \div low))
                    + limbs[i] \div low]
        dropped == limbs[5] % low
        guard == s > 0 /\ dropped >= low \div 2
        rest == sticky \/ (s > 0 /\ dropped % (low \div 2) # 0)
        tie_up == kept[5] % 2 = 1
        up == IF s = 0 THEN FALSE ELSE guard /\ (rest \/ tie_up)
        m == IF up THEN LimbsInc(kept) ELSE kept
    IN IF m[1] = 2
       THEN [m |-> <<1, 0, 0, 0, 0>>, e |-> e + s + 1]
       ELSE [m |-> m, e |-> e + s]

\* The next n limbs of the quotient r / d after the point, and the remainder
\* left: long division, 0 <= r < d.
RECURSIVE DivLimbs(_, _, _)
DivLimbs(r, d, n) ==
    IF n = 0 THEN [limbs |-> << >>, rem |-> r]
    ELSE LET more == DivLimbs((r * LimbBase) % d, d, n - 1)
         IN [limbs |-> <<(r * LimbBase) \div d>> \o more.limbs, rem |-> more.rem]

\* a * 2^k for the least k >= 0 that makes it at least b, with that k.
RECURSIVE ScaleUp(_, _, _)
ScaleUp(a, b, k) ==
    IF a >= b THEN [n |-> a, k |-> k] ELSE ScaleUp(2 * a, b, k + 1)

\* b * 2^k for the greatest k >= 0 that keeps it at most a, with that k.
RECURSIVE ScaleDown(_, _, _)
ScaleDown(a, b, k) ==
    IF 2 * b > a THEN [n |-> b, k |-> k] ELSE ScaleDown(a, 2 * b, k + 1)

\* a / b for ints a, b > 0 (Python's true division is correctly rounded):
\* the quotient is brought into [1, 2), divided out to 53 bits and rounded
\* on the remainder.
TrueDiv(a, b) ==
    LET up == ScaleUp(a, b, 0)
        down == ScaleDown(up.n, b, 0)
        q == DivLimbs(up.n - down.n, down.n, 4)
        tie_up == q.limbs[4] % 2 = 1
        round_up == 2 * q.rem > down.n \/ (2 * q.rem = down.n /\ tie_up)
        m == IF round_up THEN LimbsInc(<<1>> \o q.limbs) ELSE <<1>> \o q.limbs
        e == down.k - up.k - 4 * LimbBits
    IN IF m[1] = 2 THEN [m |-> <<1, 0, 0, 0, 0>>, e |-> e + 1]
       ELSE [m |-> m, e |-> e]

\* The limbs of limbs * n + carry, n a small int; the first limb takes what
\* is left of the carry.
RECURSIVE MulLimbs(_, _, _)
MulLimbs(limbs, n, carry) ==
    LET k == Len(limbs)
        v == limbs[k] * n + carry
    IN IF k = 1 THEN <<v>>
       ELSE MulLimbs(SubSeq(limbs, 1, k - 1), n, v \div LimbBase)
            \o <<v % LimbBase>>

\* x * n for a double x > 0 and an int 0 < n < LimbBase (n converts exactly).
MulInt(x, n) ==
    LET p == MulLimbs(x.m, n, 0)
    IN RoundLimbs(p, BitLen(p[1]) - 1, x.e, FALSE)

\* The limbs of the quotient (r * LimbBase^Len(limbs) + limbs) / d, and the
\* remainder left.
RECURSIVE LongDiv(_, _, _)
LongDiv(limbs, r, d) ==
    IF limbs = << >> THEN [limbs |-> << >>, rem |-> r]
    ELSE LET v == r * LimbBase + limbs[1]
             more == LongDiv(Tail(limbs), v % d, d)
         IN [limbs |-> <<v \div d>> \o more.limbs, rem |-> more.rem]

\* x / n for a double x > 0 and an int 1 < n < LimbBase: x is divided out
\* one limb beyond its last, which leaves the quotient 53 bits or more.
DivInt(x, n) ==
    LET q == LongDiv(x.m \o <<0>>, 0, n)
        limbs == Tail(q.limbs)
    IN RoundLimbs(limbs, BitLen(limbs[1]) - 1, x.e - LimbBits, q.rem # 0)

\* The number limbs spell.
RECURSIVE LimbsValue(_)
LimbsValue(limbs) ==
    IF limbs = << >> THEN 0
    ELSE LimbsValue(SubSeq(limbs, 1, Len(limbs) - 1)) * LimbBase
         + limbs[Len(limbs)]

\* floor(limbs * 2^e) for e < 0, a value below 2^31.
IntPart(limbs, e) ==
    LET whole == (-e) \div LimbBits
        s == (-e) % LimbBits
        n == Len(limbs) - whole
    IN IF n <= 0 THEN 0
       ELSE LimbsValue(SubSeq(limbs, 1, n - 1)) * (LimbBase \div 2 ^ s)
            + limbs[n] \div 2 ^ s

\* int(x) for a double 0 < x < 2^31.
ToInt(x) == IntPart(x.m, x.e)

\* make_bar without its clamp.
make_bar_unclamped(pct, width) ==
    LET filled == IF pct[1] = 0 \/ width = 0 THEN 0
                  ELSE IF pct[1] < 0
                  THEN -ToInt(DivInt(MulInt(TrueDiv(-pct[1], pct[2]), width), 100))
                  ELSE ToInt(DivInt(MulInt(TrueDiv(pct[1], pct[2]), width), 100))
    IN Repeat("#", filled) \o Repeat(".", width - filled)

\* make_bar(pct, width) with the default glyphs, written '#' and '.'.  pct
\* is the double nearest to pct[1] / pct[2] (pct[2] > 0, both below 2^17);
\* 0 <= width < LimbBase.  The clamp of line 415 yields the int 0 or 100 at
\* its ends, and width * 100 / 100 is width exactly.
make_bar(pct, width) ==
    LET filled == IF pct[1] <= 0 \/ width = 0 THEN 0
                  ELSE IF pct[1] >= 100 * pct[2] THEN width
                  ELSE ToInt(DivInt(MulInt(TrueDiv(pct[1], pct[2]), width), 100))
    IN Repeat("#", filled) \o Repeat(".", width - filled)

\* health = max / design * 100 if design > 0 else 0, in tenths as "{:.1f}".
health(b) ==
    IF b.design_capacity_mah > 0
    THEN Round0(b.max_capacity_mah * 1000, b.design_capacity_mah)
    ELSE 0

\* mins of a "Time to ..." row: hours = mah / ma; mins = int(hours * 60), in
\* doubles, int() truncating toward zero (ma > 0, both below 2^17 in size).
minutes(mah, ma) ==
    IF mah = 0 THEN 0
    ELSE IF mah > 0 THEN ToInt(MulInt(TrueDiv(mah, ma), 60))
    ELSE -ToInt(MulInt(TrueDiv(-mah, ma), 60))

\* "{h}h {m:02d}m" with h, m = divmod(mins, 60), which floors.
hm(mah, ma) ==
    LET mins == minutes(mah, ma)
    IN ToString(mins \div 60) \o "h " \o Pad2(mins % 60) \o "m"

\* ChargingRows with a "-" row where the code writes none.
ChargingRows_dash(b) ==
    LET remaining_mah == b.max_capacity_mah - b.current_capacity_mah
    IN IF b.charging_current_ma > 0
       THEN ("CHARGING" :> "") @@
            ("Time to Full" :> hm(remaining_mah, b.charging_current_ma))
       ELSE ("CHARGING" :> "") @@ ("Time to Full" :> "-")

\* The charging block (lines 583-596): its rows, by label.
ChargingRows(b) ==
    LET remaining_mah == b.max_capacity_mah - b.current_capacity_mah
    IN IF b.charging_current_ma > 0
       THEN ("CHARGING" :> "") @@
            ("Time to Full" :> hm(remaining_mah, b.charging_current_ma))
       ELSE ("CHARGING" :> "")

\* The discharging block (lines 597-610).
DischargingRows(b) ==
    LET discharge_ma == IF b.amperage_ma < 0 THEN -b.amperage_ma ELSE b.amperage_ma
    IN IF discharge_ma > 0
       THEN ("DISCHARGING" :> "") @@
            ("Time to Empty" :> hm(b.current_capacity_mah, discharge_ma))
       ELSE ("DISCHARGING" :> "")

\* pct of the power balance block, with 100 for the fallback.
balance_pct_full(total, adapter_max) ==
    IF adapter_max > 0
    THEN (IF total >= adapter_max * 1000000
          THEN <<100, 1>> ELSE Ratio(total, adapter_max * 10000))
    ELSE <<100, 1>>

\* pct = min(100, total / adapter_max * 100) if adapter_max > 0 else 0 (line
\* 623), total in microwatts, as a ratio.
balance_pct(total, adapter_max) ==
    IF adapter_max > 0
    THEN (IF total >= adapter_max * 1000000
          THEN <<100, 1>> ELSE Ratio(total, adapter_max * 10000))
    ELSE <<0, 1>>

\* The power balance block (lines 614-637).  Powers are in microwatts.
BalanceRows(b) ==
    LET adapter_max == b.adapter_watts
        system == b.system_power_mw * 1000
        charge == IF b.is_charging
                  THEN b.charging_current_ma * b.voltage_mv ELSE 0
        total == system + charge
        headroom == adapter_max * 1000000 - total
        pct == balance_pct(total, adapter_max)
    IN ("POWER BALANCE" :> "") @@
       ("Balance" :> ("System: " \o ToString(Round0(system, 1000000))
                      \o "W + Charging: " \o ToString(Round0(charge, 1000000))
                      \o "W = " \o ToString(Round0(total, 1000000))
                      \o "W / " \o ToString(adapter_max) \o "W")) @@
       ("Bar" :> make_bar(pct, 40)) @@
       ("Utilization" :> (ToString(Round0(pct[1], pct[2])) \o "%")) @@
       ("Headroom" :> IF headroom >= 0
                      THEN "Headroom: " \o ToString(Round0(headroom, 1000000)) \o "W"
                      ELSE "Battery supplementing: "
                           \o ToString(Round0(-headroom, 1000000))
                           \o "W (adapter maxed)")

\* DerivedRows with the elif of line 597 taken for a plain else.
DerivedRows_else(b) ==
    ("Health" :> (Fixed1(health(b)) \o "%  Cycles: " \o ToString(b.cycle_count))) @@
    (IF b.is_charging THEN ChargingRows(b) ELSE DischargingRows(b)) @@
    (IF b.external_connected THEN BalanceRows(b) ELSE << >>)

\* The rows of one render whose content is derived from the battery sample
\* (lines 571-637), by label; a row that is not written is not in the domain.
DerivedRows(b) ==
    ("Health" :> (Fixed1(health(b)) \o "%  Cycles: " \o ToString(b.cycle_count))) @@
    (IF b.is_charging THEN ChargingRows(b)
     ELSE IF ~b.external_connected THEN DischargingRows(b)
     ELSE << >>) @@
    (IF b.external_connected THEN BalanceRows(b) ELSE << >>)

\* ------------------------------------------------------------ render target
\* The (row, column) of every stdscr.addstr of one render, in order (lines
\* 496-643): row advances as the code advances it.
Layout(b) ==
    LET ext == b.external_connected
        chg == b.is_charging
        discharge_ma == IF b.amperage_ma < 0 THEN -b.amperage_ma ELSE b.amperage_ma
        r1 == 4
        r2 == (IF ext THEN r1 + 2 ELSE r1 + 1) + 2
        r3 == r2 + 3 + 2
        r4 == r3 + 2 + 2
        r5 == r4 + 2 + 2
        r6 == r5 + 5 + 2
        r7 == (IF chg \/ ~ext THEN r6 + 2 ELSE r6) + 2
        r8 == IF ext THEN r7 + 3 + 2 ELSE r7
    IN  << <<0, 0>>, <<1, 0>>, <<2, 0>> >>
        \o (IF ext THEN << <<r1, 0>>, <<r1 + 1, 2>>, <<r1 + 2, 2>> >>
            ELSE << <<r1, 0>>, <<r1 + 1, 2>> >>)
        \o << <<r2, 0>>, <<r2 + 1, 2>>, <<r2 + 2, 2>>, <<r2 + 2, 18>>,
              <<r2 + 2, 40>>, <<r2 + 3, 2>> >>
        \o << <<r3, 0>>, <<r3 + 1, 2>>, <<r3 + 1, 42>>, <<r3 + 2, 2>> >>
        \o << <<r4, 0>>, <<r4 + 1, 2>>, <<r4 + 1, 42>>, <<r4 + 2, 2>> >>
        \o << <<r5, 0>>, <<r5 + 1, 2>>, <<r5 + 1, 18>>, <<r5 + 1, 40>>,
              <<r5 + 2, 2>>, <<r5 + 3, 2>>, <<r5 + 4, 2>>, <<r5 + 5, 2>> >>
        \o (IF chg
            THEN << <<r6, 0>>, <<r6 + 1, 2>> >>
                 \o (IF b.charging_current_ma > 0
                     THEN << <<r6 + 2, 2>> >> ELSE << >>)
            ELSE IF ~ext
            THEN << <<r6, 0>>, <<r6 + 1, 2>> >>
                 \o (IF discharge_ma > 0 THEN << <<r6 + 2, 2>> >> ELSE << >>)
            ELSE << >>)
        \o (IF ext
            THEN << <<r7, 0>>, <<r7 + 1, 2>>, <<r7 + 2, 2>>, <<r7 + 3, 2>> >>
            ELSE << >>)
        \o << <<r8, 0>>, <<r8 + 1, 0>> >>

\* stdscr.addstr(y, x, ...) raises curses.error when (y, x) lies outside the
\* window of size = <<height, width>>; the code catches it nowhere.
addstr_ok(yx, size) == yx[1] < size[1] /\ yx[2] < size[2]

\* The terminal sizes stdscr.getmaxyx() is taken to return.
TermSizes == {<<24, 80>>, <<50, 40>>, <<50, 120>>}

\* countdown = int(update_interval - (current_time - last_update)) (line 640).
countdown == update_interval - (current_time - last_update)

\* ------------------------------------------------------------------- main
farewell == "Power Monitor closed."

\* main without its `except KeyboardInterrupt: pass`.
main_no_except(exc) ==
    [terminal |-> "restored",
     stdout |-> IF exc = "none" THEN <<farewell>> ELSE << >>]

\* main (lines 660-664), given how draw_dashboard ended ("none": it returned):
\* curses.wrapper restores the terminal on every path; KeyboardInterrupt is
\* the one exception caught, and only then, or on return, is the line printed.
main(exc) ==
    [terminal |-> "restored",
     stdout |-> IF exc \in {"none", "KeyboardInterrupt"} THEN <<farewell>> ELSE << >>]

\* draw_dashboard is left (break, or an exception going up) and main finishes.
\* The locals of draw_dashboard die with its frame: they are given the values
\* they had before the first tick (maxyx apart, which keeps telling the
\* window the session ended in).
Leave(exc) ==
    /\ pc' = "exited"
    /\ raised' = exc
    /\ terminal' = main(exc).terminal
    /\ stdout' = main(exc).stdout
    /\ current_time' = 0 /\ last_update' = 0 /\ key' = ERR
    /\ battery' = None /\ pmset' = None /\ thermal' = None
    /\ memory' = None /\ disk' = None /\ cpu' = 0
    /\ elapsed' = 0 /\ failures' = {}
    /\ fetched' = [p \in ProviderSet |-> 0]

\* ------------------------------------------------- what the commands print
IoregOutput ==
    [CurrentCapacity |-> 4000, MaxCapacity |-> 5000, DesignCapacity |-> 6000,
     Voltage |-> 11100, InstantAmperage |-> 1500, IsCharging |-> "Yes",
     ExternalConnected |-> "Yes", CycleCount |-> 120, Watts |-> 96,
     AdapterVoltage |-> 20000, Current |-> 4800, SystemPowerIn |-> 20000,
     ChargingCurrent |-> 1500, ChargingVoltage |-> 12600,
     CellVoltage |-> <<3700, 3700, 3700>>]
PmsetOutput ==
    [percentage |-> 80, phrases |-> {"AC Power", "charging"}, remaining |-> "0:40"]
ThermOutput == [CPU_Speed_Limit |-> 100]
TopOutput == [usage |-> <<25, 10>>]
MemsizeOutput == [digits |-> 16 * 1024 * 1024]
VmStatOutput ==
    ("Pages free" :> 100000) @@ ("Pages active" :> 300000) @@
    ("Pages inactive" :> 200000) @@ ("Pages speculative" :> 10000) @@
    ("Pages wired down" :> 100000) @@
    ("Pages occupied by compressor" :> 50000) @@ ("Pages purgeable" :> 5000)
PagesizeOutput == [digits |-> 16]
DiskutilOutput ==
    ("Container Total Space" :> <<1, "TB">>) @@
    ("Container Free Space" :> <<400, "GB">>) @@
    ("Volume Used Space" :> <<600, "GB">>)

\* What subprocess.run may do with a command that prints `out` when it works.
CmdResults(out) == {Ok(out), TimedOut, Errored}

\* ------------------------------------------------------------- initial state
\* main has entered curses.wrapper and draw_dashboard is about to start its
\* first tick (lines 442-466 done).
Init ==
    /\ pc = "input"
    /\ current_time = 0
    /\ last_update = 0
    /\ key = ERR
    /\ battery = None /\ pmset = None /\ thermal = None
    /\ memory = None /\ disk = None
    /\ cpu = 0
    /\ maxyx = <<0, 0>>
    /\ frame = << >>
    /\ terminal = "curses"
    /\ stdout = << >>
    /\ raised = "none"
    /\ keybuf = << >>
    /\ elapsed = 0
    /\ failures = {}
    /\ fetched = [p \in ProviderSet |-> 0]
    /\ batches = 0
    /\ calls = << >>
    /\ bar = None

\* ------------------------------------------------------------------ the tick
\* getch as a poll that keeps the latest pending key and flushes the rest.
getch_flush(buf) ==
    IF buf = << >> THEN [key |-> ERR, rest |-> buf]
    ELSE [key |-> buf[Len(buf)], rest |-> << >>]

\* stdscr.getch() under nodelay(1) (lines 443, 472): the oldest key of the
\* input queue, which loses it, or ERR at once when the queue is empty.
getch(buf) ==
    IF buf = << >> THEN [key |-> ERR, rest |-> buf]
    ELSE [key |-> Head(buf), rest |-> Tail(buf)]

\* handle_key with the test for 'R' forgotten.
handle_key_lower(k, last) == IF k = ord_r THEN 0 ELSE last

\* Lines 475-476: the last_update the tick goes on with after key k.
handle_key(k, last) == IF k = ord_r \/ k = ord_R THEN 0 ELSE last

\* RefreshDue with the subtraction of last_update forgotten.
RefreshDue_absolute(t, last) == t >= update_interval

\* Line 479: is a refresh due at time t?
RefreshDue(t, last) == t - last >= update_interval

\* Lines 469-479: the top of a tick.  The clock is sampled, one key is polled
\* and acted on, and the scheduler decides whether the providers run.
TickTop ==
    /\ pc = "input"
    /\ keybuf' = getch(keybuf).rest
    /\ LET k == getch(keybuf).key
       IN IF k = ord_q \/ k = ord_Q
          THEN /\ Leave("none")
               /\ UNCHANGED <<maxyx, batches, calls>>
          ELSE /\ \E t \in ClockReadings : current_time' = t
               /\ key' = k
               /\ last_update' = handle_key(k, last_update)
               /\ calls' = << >>
               /\ IF RefreshDue(current_time', last_update')
                  THEN /\ batches < MaxBatches
                       /\ batches' = batches + 1
                       /\ pc' = "battery"
                  ELSE /\ pc' = "render"
                       /\ UNCHANGED batches
               /\ UNCHANGED <<samples, maxyx, terminal, stdout, raised,
                              elapsed, failures, fetched>>
    /\ UNCHANGED <<frame, bar>>

\* Invoke with a failed command cutting the batch short: the tick goes straight
\* on to its render.
Invoke_abort(p, cmds, results, next) ==
    /\ pc = p
    /\ failures' = failures \cup {cmds[i] : i \in {j \in DOMAIN cmds : CmdFailed(results[j])}}
    /\ Cardinality(failures') <= MaxFailures
    /\ \E d \in 0..(MaxElapsed - elapsed) : elapsed' = elapsed + d
    /\ fetched' = [fetched EXCEPT ![p] = batches]
    /\ calls' = Append(calls, p)
    /\ pc' = IF failures' # failures THEN "render" ELSE next
    /\ UNCHANGED <<current_time, last_update, key, maxyx, frame, terminal,
                   stdout, raised, keybuf, batches, bar>>

\* What every provider call does besides assigning its sample: it takes time,
\* those of its commands that fail are noted, and control moves to the next
\* line.  cmds names the commands the provider runs, results what each did.
Invoke(p, cmds, results, next) ==
    /\ pc = p
    /\ failures' = failures \cup {cmds[i] : i \in {j \in DOMAIN cmds : CmdFailed(results[j])}}
    /\ Cardinality(failures') <= MaxFailures
    /\ \E d \in 0..(MaxElapsed - elapsed) : elapsed' = elapsed + d
    /\ fetched' = [fetched EXCEPT ![p] = batches]
    /\ calls' = Append(calls, p)
    /\ pc' = next
    /\ UNCHANGED <<current_time, last_update, key, maxyx, frame, terminal,
                   stdout, raised, keybuf, batches, bar>>

\* Battery with the batch spread over ticks: the tick renders after the first
\* provider.
Battery_then_render ==
    \E r \in CmdResults(IoregOutput) :
        /\ Invoke("battery", <<"ioreg">>, <<r>>, "render")
        /\ battery' = parse_ioreg_battery(run_cmd(r))
        /\ UNCHANGED <<pmset, thermal, cpu, memory, disk>>

\* Line 480.
Battery ==
    \E r \in CmdResults(IoregOutput) :
        /\ Invoke("battery", <<"ioreg">>, <<r>>, "pmset")
        /\ battery' = parse_ioreg_battery(run_cmd(r))
        /\ UNCHANGED <<pmset, thermal, cpu, memory, disk>>

\* Line 481.
Pmset ==
    \E r \in CmdResults(PmsetOutput) :
        /\ Invoke("pmset", <<"pmset batt">>, <<r>>, "thermal")
        /\ pmset' = parse_pmset(run_cmd(r))
        /\ UNCHANGED <<battery, thermal, cpu, memory, disk>>

\* Line 482.
Thermal ==
    \E r \in CmdResults(ThermOutput) :
        /\ Invoke("thermal", <<"pmset therm">>, <<r>>, "cpu")
        /\ thermal' = parse_thermal(run_cmd(r))
        /\ UNCHANGED <<battery, pmset, cpu, memory, disk>>

\* Line 483.
Cpu ==
    \E r \in CmdResults(TopOutput) :
        /\ Invoke("cpu", <<"top">>, <<r>>, "memory")
        /\ cpu' = get_cpu_usage(run_cmd(r))
        /\ UNCHANGED <<battery, pmset, thermal, memory, disk>>

\* Line 484.
Memory ==
    \E r1 \in CmdResults(MemsizeOutput), r2 \in CmdResults(VmStatOutput),
       r3 \in CmdResults(PagesizeOutput) :
        /\ Invoke("memory", <<"sysctl", "vm_stat", "pagesize">>, <<r1, r2, r3>>, "disk")
        /\ memory' = get_memory_info(run_cmd(r1), run_cmd(r2), run_cmd(r3))
        /\ UNCHANGED <<battery, pmset, thermal, cpu, disk>>

\* Line 485.
Disk ==
    \E r \in CmdResults(DiskutilOutput) :
        /\ Invoke("disk", <<"diskutil">>, <<r>>, "commit")
        /\ disk' = get_disk_info(run_cmd(r))
        /\ UNCHANGED <<battery, pmset, thermal, cpu, memory>>

\* Commit stamping the batch with the clock read after the last provider.
Commit_at_return ==
    /\ pc = "commit"
    /\ last_update' = current_time + elapsed
    /\ elapsed' = 0
    /\ failures' = {}
    /\ pc' = "render"
    /\ UNCHANGED <<current_time, key, samples, maxyx, frame, terminal, stdout,
                   raised, keybuf, fetched, batches, calls, bar>>

\* Line 486: the batch is committed.
Commit ==
    /\ pc = "commit"
    /\ last_update' = current_time
    /\ elapsed' = 0
    /\ failures' = {}
    /\ pc' = "render"
    /\ UNCHANGED <<current_time, key, samples, maxyx, frame, terminal, stdout,
                   raised, keybuf, fetched, batches, calls, bar>>

\* Lines 489-490: nothing to draw yet; `continue` skips the sleep too.
SkipRender ==
    /\ pc = "render"
    /\ battery = None
    /\ pc' = "input"
    /\ UNCHANGED <<current_time, last_update, key, samples, maxyx, frame,
                   terminal, stdout, raised, keybuf, elapsed, failures,
                   fetched, batches, calls, bar>>

\* Lines 492-645: one render.  The first addstr outside the window raises
\* curses.error, which leaves draw_dashboard.
Render ==
    /\ pc = "render"
    /\ battery # None
    /\ \E size \in TermSizes :
        /\ maxyx' = size
        /\ IF \A i \in DOMAIN Layout(battery) : addstr_ok(Layout(battery)[i], size)
           THEN /\ frame' = DerivedRows(battery)
                /\ pc' = "sleep"
                /\ UNCHANGED <<current_time, last_update, key, samples,
                               terminal, stdout, raised, elapsed, failures,
                               fetched>>
           ELSE /\ Leave("curses.error")
                /\ UNCHANGED frame
    /\ UNCHANGED <<keybuf, batches, calls, bar>>

\* Line 646.
Sleep ==
    /\ pc = "sleep"
    /\ pc' = "input"
    /\ UNCHANGED <<current_time, last_update, key, samples, maxyx, frame,
                   terminal, stdout, raised, keybuf, elapsed, failures,
                   fetched, batches, calls, bar>>

\* ------------------------------------------------------------ environment
\* The user types a key; the terminal queues it until getch reads it.  Only
\* getch reads the queue, so a key typed anywhere in a tick has the effect of
\* one typed just before the next poll: keys are queued there.
KeyPress ==
    /\ pc = "input"
    /\ Len(keybuf) < MaxKeys
    /\ \E k \in Keys : keybuf' = Append(keybuf, k)
    /\ UNCHANGED <<pc, current_time, last_update, key, samples, maxyx, frame,
                   terminal, stdout, raised, elapsed, failures, fetched,
                   batches, calls, bar>>

\* Ctrl+C: SIGINT raises KeyboardInterrupt wherever the loop is; neither
\* run_cmd (except Exception) nor draw_dashboard catches it.
Interrupt ==
    /\ pc # "exited"
    /\ Leave("KeyboardInterrupt")
    /\ UNCHANGED <<maxyx, frame, keybuf, batches, calls, bar>>

Next ==
    \/ TickTop
    \/ Battery \/ Pmset \/ Thermal \/ Cpu \/ Memory \/ Disk \/ Commit
    \/ SkipRender \/ Render \/ Sleep
    \/ KeyPress \/ Interrupt

Spec == Init /\ [][Next]_vars

\* ------------------------------------------------- the render pipeline alone
\* The registry dumps the derivations are checked over: every combination of
\* the fields the derived rows read.
RenderIoregOutputs ==
    [IsCharging : {"Yes", "No"}, ExternalConnected : {"Yes", "No"},
     Watts : {0, 30, 96}, SystemPowerIn : {0, 20000, 45000},
     ChargingCurrent : {0, 1500, 3000}, Voltage : {0, 11100},
     MaxCapacity : {0, 5000}, CurrentCapacity : {0, 4000, 5200},
     InstantAmperage : {-2500, 0, 1500}, DesignCapacity : {0, 6000}]

\* A first batch has just been committed at time 10, with any of the battery
\* samples above, and the tick is about to render it.
InitRender ==
    /\ pc = "render"
    /\ current_time = 10
    /\ last_update = 10
    /\ key = ERR
    /\ \E out \in RenderIoregOutputs : battery = parse_ioreg_battery(out)
    /\ pmset = parse_pmset(PmsetOutput)
    /\ thermal = parse_thermal(ThermOutput)
    /\ cpu = get_cpu_usage(TopOutput)
    /\ memory = get_memory_info(MemsizeOutput, VmStatOutput, PagesizeOutput)
    /\ disk = get_disk_info(DiskutilOutput)
    /\ maxyx = <<0, 0>>
    /\ frame = << >>
    /\ terminal = "curses"
    /\ stdout = << >>
    /\ raised = "none"
    /\ keybuf = << >>
    /\ elapsed = 0
    /\ failures = {}
    /\ fetched = [p \in ProviderSet |-> 1]
    /\ batches = 1
    /\ calls = Providers
    /\ bar = None

NextRender == Render

SpecRender == InitRender /\ [][NextRender]_vars

\* ------------------------------------------------------- make_bar alone
\* The widest of the small bars; the widths the render uses are bars too.
MaxWidth == 6

\* Percentages as pct[1] / pct[2]: below, at, within and above the clamp,
\* whole numbers (the battery and disk bars get ints) and thirds (a cpu,
\* memory or power balance percentage is a quotient).
BarPcts ==
    {<<-5, 1>>, <<-1, 3>>, <<0, 1>>, <<1, 3>>, <<1, 1>>, <<100, 3>>,
     <<50, 1>>, <<75, 1>>, <<250, 3>>, <<99, 1>>, <<299, 3>>, <<100, 1>>,
     <<301, 3>>, <<150, 1>>}

\* The widths of the calls at lines 529, 543, 553, 564 and 628, the example
\* of the docstring, and the small ones.
BarWidths == (0..MaxWidth) \cup {15, 20, 30, 40}

\* make_bar is about to be called with any of these arguments.
InitBar ==
    /\ pc = "make_bar"
    /\ bar \in [pct : BarPcts, width : BarWidths, out : {""}]
    /\ current_time = 0
    /\ last_update = 0
    /\ key = ERR
    /\ battery = None /\ pmset = None /\ thermal = None
    /\ memory = None /\ disk = None
    /\ cpu = 0
    /\ maxyx = <<0, 0>>
    /\ frame = << >>
    /\ terminal = "curses"
    /\ stdout = << >>
    /\ raised = "none"
    /\ keybuf = << >>
    /\ elapsed = 0
    /\ failures = {}
    /\ fetched = [p \in ProviderSet |-> 0]
    /\ batches = 0
    /\ calls = << >>

\* Lines 415-417: the call returns its string.
MakeBar ==
    /\ pc = "make_bar"
    /\ bar' = [bar EXCEPT !.out = make_bar(bar.pct, bar.width)]
    /\ pc' = "returned"
    /\ UNCHANGED <<current_time, last_update, key, samples, maxyx, frame,
                   terminal, stdout, raised, keybuf, elapsed, failures,
                   fetched, batches, calls>>

NextBar == MakeBar

SpecBar == InitBar /\ [][NextBar]_vars

\* ================================================================= claims
\* C1: a tick whose clock reading is less than one refresh interval past
\* last_update, and whose poll read no r/R, goes straight to its render: no
\* provider is invoked in it, and the six cached samples and last_update stay
\* as they were until the tick ends.
C1_NoRefreshBeforeInterval ==
    /\ [][(/\ pc = "input" /\ pc' \notin {"input", "exited"}
           /\ key' \notin {ord_r, ord_R}
           /\ current_time' - last_update < update_interval)
          => (/\ pc' = "render" /\ calls' = << >>
              /\ UNCHANGED <<samples, fetched, last_update>>)]_vars
    /\ [][(pc \in {"render", "sleep"} /\ pc' # "exited")
          => (calls' = calls /\ UNCHANGED <<samples, fetched, last_update>>)]_vars

\* A tick at time 19 that read no r/R reuses the batch committed at time 10.
C1_Witness ==
    /\ pc = "render" /\ calls = << >> /\ battery # None
    /\ key \notin {ord_r, ord_R}
    /\ current_time = 19 /\ last_update = 10

\* C2: whenever the render section is about to run (the tick is at its render
\* and battery is not None), all six samples were fetched by one and the same
\* batch, the last one started, and none is None; and no frame is on the
\* screen while some sample has never been fetched.
C2_RenderSeesOneBatch ==
    /\ (pc = "render" /\ battery # None)
       => (/\ batches >= 1
           /\ \A p \in ProviderSet : fetched[p] = batches
           /\ pmset # None /\ thermal # None /\ memory # None /\ disk # None)
    /\ (pc # "exited" /\ \E p \in ProviderSet : fetched[p] = 0) => frame = << >>

\* The render of a second batch, one of whose commands had failed.
C2_Witness ==
    /\ pc = "render" /\ battery # None /\ batches = 2
    /\ calls = Providers /\ cpu = 0

\* C3 (as claimed): no write outside the window ends the session, whatever
\* the terminal's size: draw_dashboard is never left by the curses.error
\* that such an addstr raises.
C3_ClippedWriteNotFatal == raised # "curses.error"

\* C4: a tick that reads q/Q, and a KeyboardInterrupt arriving anywhere in the
\* loop, end the session at once: the terminal is restored, the farewell line
\* is printed, no provider is invoked and nothing is drawn by that step, and
\* nothing at all happens afterwards.
C4_CleanExit ==
    /\ [][(\/ (pc = "input" /\ getch(keybuf).key \in {ord_q, ord_Q} /\ pc' # "input")
           \/ (raised = "none" /\ raised' = "KeyboardInterrupt"))
          => (/\ pc' = "exited" /\ terminal' = "restored"
              /\ stdout' = <<farewell>>
              /\ calls' = calls /\ frame' = frame /\ batches' = batches)]_vars
    /\ [][pc # "exited"]_vars

\* Ctrl+C in the middle of a refresh batch, after a frame had been drawn.
C4_Witness ==
    /\ pc = "exited" /\ raised = "KeyboardInterrupt"
    /\ calls # << >> /\ Len(calls) < Len(Providers)
    /\ frame # << >>
    /\ terminal = "restored" /\ stdout = <<farewell>>

\* C5 (as claimed): a tick that reads r/R while no refresh is due by the
\* interval does not run the provider batch itself; the request waits for
\* the next tick.
C5_ForcedRefreshNextTick ==
    [][(/\ pc = "input" /\ pc' \notin {"input", "exited"}
        /\ key' \in {ord_r, ord_R}
        /\ current_time' - last_update < update_interval)
       => pc' # "battery"]_vars

\* C5 (amended): a tick that reads r/R sets last_update to 0 and acts on it
\* at once: with a clock reading of at least update_interval the provider
\* batch starts in that same tick, with a lower one no batch runs.
C5_ForcedRefreshSameTick ==
    [][(/\ pc = "input" /\ pc' \notin {"input", "exited"}
        /\ key' \in {ord_r, ord_R})
       => (/\ last_update' = 0
           /\ current_time' >= update_interval
              => (pc' = "battery" /\ batches' = batches + 1)
           /\ current_time' < update_interval => pc' = "render")]_vars

\* A second batch started by r/R at time 10, when the first, committed at 10
\* or later, was not yet one interval old.
C5_Witness ==
    /\ pc = "battery" /\ key \in {ord_r, ord_R}
    /\ batches = 2 /\ current_time = 10 /\ last_update = 0

\* C6 (as claimed): the poll of a tick leaves nothing buffered, and of several
\* pending keys it is the latest that takes effect.
C6_NothingStaysBuffered ==
    [][(pc = "input" /\ pc' # "input" /\ raised' # "KeyboardInterrupt")
       => (/\ keybuf' = << >>
           /\ (keybuf # << >> /\ pc' # "exited") => key' = keybuf[Len(keybuf)])]_vars

\* C6 (amended): the poll of a tick takes exactly the oldest pending key, or
\* ERR at once when none is pending; the keys behind it stay queued in order
\* for the following ticks, and no other step takes a key from the queue.
C6_OneKeyPerTick ==
    /\ [][(pc = "input" /\ pc' # "input" /\ raised' # "KeyboardInterrupt")
          => IF keybuf = << >>
             THEN keybuf' = << >> /\ key' = ERR /\ pc' # "exited"
             ELSE /\ keybuf' = Tail(keybuf)
                  /\ pc' # "exited" => key' = Head(keybuf)
                  /\ pc' = "exited" <=> Head(keybuf) \in {ord_q, ord_Q}]_vars
    /\ [][(pc # "input" \/ raised' = "KeyboardInterrupt") => keybuf' = keybuf]_vars

\* Of the burst x, r the tick has handled x; r is still queued.
C6_Witness ==
    pc = "render" /\ key = ord_x /\ keybuf = <<ord_r>>

\* C7: a command that fails or times out does not end the batch.  Every
\* provider call hands over to the next line whatever its commands did, so a
\* batch that reaches its commit has called all six in this tick and is then
\* rendered; and there each sample whose command failed holds the defaults.
C7_FailureDoesNotAbortBatch ==
    /\ [][(pc \in ProviderSet /\ pc' # "exited")
          => (/\ calls' = Append(calls, pc)
              /\ \E i \in 1..Len(Providers) :
                    /\ Providers[i] = pc
                    /\ pc' = IF i < Len(Providers) THEN Providers[i + 1]
                             ELSE "commit")]_vars
    /\ [][(pc = "commit" /\ pc' # "exited")
          => (pc' = "render" /\ UNCHANGED samples)]_vars
    /\ [](pc = "commit" =>
            /\ calls = Providers
            /\ "ioreg" \in failures =>
                 battery = [current_capacity_mah |-> 0, max_capacity_mah |-> 0,
                            design_capacity_mah |-> 0, voltage_mv |-> 0,
                            amperage_ma |-> 0, is_charging |-> FALSE,
                            external_connected |-> FALSE, cycle_count |-> 0,
                            adapter_watts |-> 0, adapter_voltage_mv |-> 0,
                            adapter_current_ma |-> 0, system_power_mw |-> 0,
                            charging_current_ma |-> 0, charging_voltage_mv |-> 0,
                            cell_voltages |-> <<0, 0, 0>>]
            /\ "pmset batt" \in failures =>
                 pmset = [percentage |-> 0, status |-> "Unknown",
                          time_remaining |-> "N/A"]
            /\ "pmset therm" \in failures => thermal = [cpu_speed_limit |-> 100]
            /\ "top" \in failures => cpu = 0
            /\ "sysctl" \in failures => memory.total_gb = 16 * 1024 * 1024
            /\ "vm_stat" \in failures =>
                 /\ memory.app_gb = 0 /\ memory.wired_gb = 0
                 /\ memory.compressed_gb = 0 /\ memory.cached_gb = 0
                 /\ memory.free_gb = 0 /\ memory.purgeable_gb = 0
                 /\ memory.used_pct = 0
            /\ ("pagesize" \in failures /\ "vm_stat" \notin failures) =>
                 memory.free_gb = 100000 * 16
            /\ "diskutil" \in failures =>
                 disk = [total_gb |-> 0, used_gb |-> 0, available_gb |-> 0,
                         used_pct |-> 0, purgeable_gb |-> 0])

\* A batch whose first command, ioreg, failed is about to be committed.
C7_Witness ==
    pc = "commit" /\ "ioreg" \in failures /\ calls = Providers

\* C8 (as claimed): the six providers run in the fixed order, and the commit
\* sets last_update to the time at which the last provider returned.
C8_StampedAfterProviders ==
    [][(pc = "commit" /\ pc' = "render")
       => (calls = Providers /\ last_update' = current_time + elapsed)]_vars

\* C8 (amended): the six providers run in the fixed order, and the commit
\* sets last_update to current_time, the reading taken at the top of the
\* tick before any provider ran.
C8_StampedAtTickTop ==
    [][(pc = "commit" /\ pc' = "render")
       => (calls = Providers /\ last_update' = current_time)]_vars

\* The second batch has been committed in the tick that read the clock at 20.
C8_Witness ==
    /\ pc = "render" /\ calls = Providers
    /\ current_time = 20 /\ last_update = 20 /\ batches = 2

\* The texts "0%" .. "100%".
NumericPercents == {ToString(n) \o "%" : n \in 0..100}

\* C9 (as claimed): with external power and adapter_watts = 0, the utilization
\* the frame shows is not a number.
C9_UtilizationUndefined ==
    (pc = "sleep" /\ battery.external_connected /\ battery.adapter_watts = 0)
    => (/\ "Utilization" \in DOMAIN frame
        /\ frame["Utilization"] \notin NumericPercents)

\* C9 (amended): with external power and adapter_watts = 0, a frame that is
\* drawn shows the numeric fallback "0%" over an empty bar.
C9_UtilizationZero ==
    (pc = "sleep" /\ battery.external_connected /\ battery.adapter_watts = 0)
    => (/\ "Utilization" \in DOMAIN frame
        /\ frame["Utilization"] = "0%"
        /\ frame["Bar"] = "........................................")

\* Rendered: external power, no adapter rating, the system drawing power.
C9_Witness ==
    /\ pc = "sleep" /\ battery.external_connected
    /\ battery.adapter_watts = 0 /\ battery.system_power_mw > 0
    /\ "Utilization" \in DOMAIN frame

\* C10 (as claimed): with charging_current_ma <= 0 the frame shows "-" for
\* the time to full.
C10_TimeToFullDash ==
    (pc = "sleep" /\ battery.charging_current_ma <= 0)
    => ("Time to Full" \in DOMAIN frame /\ frame["Time to Full"] = "-")

\* C10 (amended): with charging_current_ma <= 0 a frame that is drawn has no
\* Time to Full row at all, neither a value nor "-"; its charging block
\* header is there exactly when is_charging is set.
C10_TimeToFullOmitted ==
    (pc = "sleep" /\ battery.charging_current_ma <= 0)
    => (/\ "Time to Full" \notin DOMAIN frame
        /\ "CHARGING" \in DOMAIN frame <=> battery.is_charging)

\* Rendered: charging is flagged, yet the charging current is 0.
C10_Witness ==
    /\ pc = "sleep" /\ battery.is_charging
    /\ battery.charging_current_ma = 0
    /\ battery.max_capacity_mah > battery.current_capacity_mah
    /\ "CHARGING" \in DOMAIN frame

\* The bar of width glyphs of which the first n are filled.
BarOf(n, width) == Repeat("#", n) \o Repeat(".", width - n)

\* floor(width * clamp(p, 0, 100) / 100) in exact arithmetic, p the double
\* nearest to pct[1] / pct[2].
ExactFilled(pct, width) ==
    IF pct[1] <= 0 \/ width = 0 THEN 0
    ELSE IF pct[1] >= 100 * pct[2] THEN width
    ELSE IntPart(MulLimbs(TrueDiv(pct[1], pct[2]).m, width, 0),
                 TrueDiv(pct[1], pct[2]).e) \div 100

\* C11 (as claimed): make_bar(p, w) is w glyphs, the first
\* floor(w * clamp(p, 0, 100) / 100) of them filled and the others empty.
C11_FilledIsExactFloor ==
    pc = "returned" => bar.out = BarOf(ExactFilled(bar.pct, bar.width), bar.width)

\* C11 (amended): make_bar(p, w) is w glyphs, filled ones first; the filled
\* ones number floor(w * clamp(p, 0, 100) / 100) or, where the rounding of
\* the doubles reaches the next whole number, one more, and exactly the
\* floor for a whole p; the bar is all empty for p < 0 as for 0 and all
\* filled for p > 100 as for 100.
C11_BarShape ==
    pc = "returned" =>
        LET w == bar.width
            k == ExactFilled(bar.pct, w)
        IN /\ bar.out \in {BarOf(n, w) : n \in {k, k + 1} \cap (0..w)}
           /\ bar.pct[2] = 1 => bar.out = BarOf(k, w)
           /\ bar.pct[1] <= 0 => bar.out = Repeat(".", w)
           /\ bar.pct[1] >= 100 * bar.pct[2] => bar.out = Repeat("#", w)

\* The docstring's example, make_bar(75, 20), has returned 15 filled glyphs
\* and 5 empty ones.
C11_Witness ==
    /\ pc = "returned" /\ bar.pct = <<75, 1>> /\ bar.width = 20
    /\ bar.out = "###############....."

\* C12: in every frame drawn, the charging block is there iff is_charging,
\* the discharging block iff neither is_charging nor external_connected, the
\* power balance block iff external_connected; and with external power and
\* is_charging false the balance line reads "Charging: 0W" with the total
\* equal to the system power, whatever the charging current of the sample.
C12_BlockVisibility ==
    pc = "sleep" =>
        LET chg == battery.is_charging
            ext == battery.external_connected
            sys == ToString(Round0(battery.system_power_mw, 1000))
        IN /\ "CHARGING" \in DOMAIN frame <=> chg
           /\ "DISCHARGING" \in DOMAIN frame <=> (~chg /\ ~ext)
           /\ "Time to Empty" \in DOMAIN frame => (~chg /\ ~ext)
           /\ "POWER BALANCE" \in DOMAIN frame <=> ext
           /\ "Balance" \in DOMAIN frame <=> ext
           /\ (ext /\ ~chg) =>
                frame["Balance"] = "System: " \o sys \o "W + Charging: 0W = "
                                   \o sys \o "W / "
                                   \o ToString(battery.adapter_watts) \o "W"

\* Drawn: external power, not charging though the sample has a charging
\* current, neither block shown and the balance with charge 0 W.
C12_Witness ==
    /\ pc = "sleep"
    /\ battery.external_connected /\ ~battery.is_charging
    /\ battery.charging_current_ma > 0 /\ battery.voltage_mv > 0
    /\ battery.amperage_ma # 0
    /\ "CHARGING" \notin DOMAIN frame /\ "DISCHARGING" \notin DOMAIN frame
    /\ frame["Balance"] = "System: 20W + Charging: 0W = 20W / 96W"

\* C13: in every frame drawn, the N of the footer's "Next update: Ns" (line
\* 643: the countdown of the tick that drew it) is in 0..update_interval.
C13_CountdownInRange ==
    pc = "sleep" => countdown \in 0..update_interval

\* C14: whenever a frame has a Time to Full row, it reads "{h}h {m:02d}m"
\* with h >= 0, m in 0..59 and h * 60 + m equal to
\* floor((max_capacity_mah - current_capacity_mah) * 60 / charging_current_ma).
C14_TimeToFullArithmetic ==
    (pc = "sleep" /\ "Time to Full" \in DOMAIN frame) =>
        \E h \in 0..99, m \in 0..59 :
            /\ frame["Time to Full"] = ToString(h) \o "h " \o Pad2(m) \o "m"
            /\ h * 60 + m
               = ((battery.max_capacity_mah - battery.current_capacity_mah) * 60)
                 \div battery.charging_current_ma

====
